---------------------------- MODULE Spec2Model ----------------------------
(***************************************************************************)
(* A model of the analytics service of analytics_site/main.py: the event   *)
(* table, the collect / sankey / stats / clear endpoints and the two        *)
(* normalisation functions they share.                                      *)
(*                                                                          *)
(* Strings are TLA+ strings, handled character by character through Len,    *)
(* SubSeq and \o, so the parsing of a URL and the f-string node names are   *)
(* computed as Python computes them.  A nullable field is <<>> (None) or    *)
(* <<v>>.                                                                   *)
(***************************************************************************)
EXTENDS Integers, Sequences, FiniteSets, Bags, TLC

\* store: the events table; request: the call in flight, when the system under
\* study is one of the pure functions; response: what the last call returned
VARIABLES store, request, response

vars == <<store, request, response>>

(***************************************************************************)
(* Bounds of the model.                                                     *)
(***************************************************************************)
MaxEvents == 4

MaxStatsEvents == 7

MaxEngagementEvents == 5

MaxMixedEvents == 5

MaxWindowTime == 4

\* the row caps of the two queries, scaled down so that a table exceeds them
ScaledRowCap == 2

MaxTime == 2

(***************************************************************************)
(* Python str operations.                                                   *)
(***************************************************************************)
None == <<>>

Some(v) == <<v>>

OrEmpty(o) == IF o = None THEN "" ELSE o[1]

Min(S) == CHOOSE i \in S : \A j \in S : i <= j

\* the characters i..j of s (counted from 1), clipped to s as a Python slice is
Slice(s, i, j) ==
    IF i < 1 \/ i > j \/ i > Len(s) THEN ""
    ELSE SubSeq(s, i, IF j > Len(s) THEN Len(s) ELSE j)

CharAt(s, i) == Slice(s, i, i)

\* the positions from start on at which sub occurs in s
Positions(s, sub, start) ==
    {i \in start..(Len(s) - Len(sub) + 1) : Slice(s, i, i + Len(sub) - 1) = sub}

\* s.find(sub, start) with positions counted from 1; 0 when sub is absent
Find(s, sub, start) ==
    IF Positions(s, sub, start) = {} THEN 0 ELSE Min(Positions(s, sub, start))

\* sub in s
Contains(s, sub) == Positions(s, sub, 1) # {}

\* s.startswith(prefix)
StartsWith(s, prefix) == Slice(s, 1, Len(prefix)) = prefix

\* s[i:] with i counted from 1
From(s, i) == Slice(s, i, Len(s))

\* s.split(sep, 1)[0], and [1] when sep is in s ("" otherwise)
Before(s, sep) ==
    IF Contains(s, sep) THEN Slice(s, 1, Find(s, sep, 1) - 1) ELSE s

After(s, sep) ==
    IF Contains(s, sep) THEN From(s, Find(s, sep, 1) + Len(sep)) ELSE ""

UpperLetters == "ABCDEFGHIJKLMNOPQRSTUVWXYZ"

LowerLetters == "abcdefghijklmnopqrstuvwxyz"

Digits == "0123456789"

LowerCh(c) ==
    IF Contains(UpperLetters, c)
    THEN CharAt(LowerLetters, Find(UpperLetters, c, 1)) ELSE c

UpperCh(c) ==
    IF Contains(LowerLetters, c)
    THEN CharAt(UpperLetters, Find(LowerLetters, c, 1)) ELSE c

\* s.lower()
RECURSIVE Lower(_)
Lower(s) == IF s = "" THEN "" ELSE LowerCh(Head(s)) \o Lower(Tail(s))

\* s.capitalize()
Capitalize(s) == IF s = "" THEN "" ELSE UpperCh(Head(s)) \o Lower(Tail(s))

\* s.replace(old, new) for a one-character old
RECURSIVE Replace(_, _, _)
Replace(s, old, new) ==
    IF s = "" THEN ""
    ELSE (IF Head(s) = old THEN new ELSE Head(s)) \o Replace(Tail(s), old, new)

(***************************************************************************)
(* urllib.parse.urlparse, as normalize_url and normalize_referrer call it.  *)
(* ok = FALSE stands for the ValueError ("Invalid IPv6 URL") it raises.     *)
(* The inputs of the model hold no ';', '%', control characters or leading  *)
(* blanks, so params splitting, unquoting and stripping have nothing to do. *)
(***************************************************************************)
IsAlpha(c) == Contains(UpperLetters, c) \/ Contains(LowerLetters, c)

IsSchemeChar(c) == IsAlpha(c) \/ Contains(Digits, c) \/ Contains("+-.", c)

\* the position of the ':' ending a scheme, 0 when the url has no scheme
SchemeEnd(url) ==
    LET i == Find(url, ":", 1)
    IN  IF /\ i > 1
           /\ IsAlpha(CharAt(url, 1))
           /\ \A k \in 1..(i - 1) : IsSchemeChar(CharAt(url, k))
        THEN i ELSE 0

\* _splitnetloc(url, 2): the first of '/', '?', '#' after the leading "//"
NetlocEnd(url) ==
    Min({Len(url) + 1} \cup
        UNION {Positions(url, c, 3) : c \in {"/", "?", "#"}})

BracketsBalanced(netloc) == Contains(netloc, "[") <=> Contains(netloc, "]")

\* the path and the query of what is left of the url, and the result
SplitQuery(scheme, netloc, url, fragment) ==
    [ok       |-> BracketsBalanced(netloc),
     scheme   |-> scheme,
     netloc   |-> netloc,
     path     |-> Before(url, "?"),
     query    |-> After(url, "?"),
     fragment |-> fragment]

\* the fragment
SplitFragment(scheme, netloc, url) ==
    SplitQuery(scheme, netloc, Before(url, "#"), After(url, "#"))

\* the netloc, when the url goes on with "//"
SplitNetloc(scheme, url) ==
    IF Slice(url, 1, 2) = "//"
    THEN SplitFragment(scheme, Slice(url, 3, NetlocEnd(url) - 1),
                       From(url, NetlocEnd(url)))
    ELSE SplitFragment(scheme, "", url)

\* the scheme
urlparse(url) ==
    IF SchemeEnd(url) = 0 THEN SplitNetloc("", url)
    ELSE SplitNetloc(Lower(Slice(url, 1, SchemeEnd(url) - 1)),
                     From(url, SchemeEnd(url) + 1))

\* one name=value field of a query string: <<>>, or the pair in a list; a
\* field with no '=' or with an empty value is dropped (keep_blank_values is
\* False)
QueryField(nv) ==
    IF ~Contains(nv, "=") \/ After(nv, "=") = "" THEN <<>>
    ELSE << <<Replace(Before(nv, "="), "+", " "),
              Replace(After(nv, "="), "+", " ")>> >>

\* the (name, value) pairs of a query string, in order
RECURSIVE parse_qsl(_)
parse_qsl(qs) ==
    IF qs = "" THEN <<>>
    ELSE QueryField(Before(qs, "&")) \o parse_qsl(After(qs, "&"))

\* parse_qs(query)[name], the list of the values given for name
QueryValues(qs, name) == SelectSeq(parse_qsl(qs), LAMBDA p : p[1] = name)

(***************************************************************************)
(* normalize_url                                                            *)
(***************************************************************************)
PathCategory_course_prefix(path) ==
    IF path = "/" \/ path = "" THEN "Home"
    ELSE IF StartsWith(path, "/course") THEN "Course Detail"
    ELSE IF StartsWith(path, "/courses") THEN "Course List"
    ELSE IF StartsWith(path, "/rankings") THEN "Rankings"
    ELSE IF StartsWith(path, "/login") THEN "Login"
    ELSE IF StartsWith(path, "/register") THEN "Register"
    ELSE IF StartsWith(path, "/admin") THEN "Admin"
    ELSE path

\* the category of a parsed path
PathCategory(path) ==
    IF path = "/" \/ path = "" THEN "Home"
    ELSE IF StartsWith(path, "/course/") THEN "Course Detail"
    ELSE IF StartsWith(path, "/courses") THEN "Course List"
    ELSE IF StartsWith(path, "/rankings") THEN "Rankings"
    ELSE IF StartsWith(path, "/login") THEN "Login"
    ELSE IF StartsWith(path, "/register") THEN "Register"
    ELSE IF StartsWith(path, "/admin") THEN "Admin"
    ELSE path

normalize_url(url) ==
    IF ~urlparse(url).ok THEN "Unknown" ELSE PathCategory(urlparse(url).path)

(***************************************************************************)
(* normalize_referrer.  Each of the first two steps yields None when it     *)
(* does not decide.                                                         *)
(***************************************************************************)
UtmSourceLabel(source) ==
    IF source = "wechat" THEN "WeChat"
    ELSE IF source = "dingtalk" THEN "DingTalk"
    ELSE IF source = "google" THEN "Google Search"
    ELSE Capitalize(source) \o " (UTM)"

UtmValuesLabel(values) ==
    IF values = <<>> THEN None ELSE Some(UtmSourceLabel(Lower(values[1][2])))

\* step 1: utm_source in the query of current_url; a parse error is passed over
UtmLabel(current_url) ==
    IF ~urlparse(current_url).ok THEN None
    ELSE UtmValuesLabel(QueryValues(urlparse(current_url).query, "utm_source"))

UaLowerLabel(ua) ==
    IF Contains(ua, "micromessenger") THEN Some("WeChat")
    ELSE IF Contains(ua, "dingtalk") THEN Some("DingTalk")
    ELSE IF Contains(ua, "qq/") THEN Some("QQ")
    ELSE IF Contains(ua, "weibo") THEN Some("Weibo")
    ELSE None

\* step 2: the in-app browsers, by user agent
UaLabel(user_agent) ==
    IF user_agent = "" THEN None ELSE UaLowerLabel(Lower(user_agent))

NetlocLabel(netloc, curr_netloc) ==
    IF netloc = curr_netloc THEN "Internal"
    ELSE IF Contains(netloc, "google") THEN "Google Search"
    ELSE IF Contains(netloc, "bing") THEN "Bing Search"
    ELSE IF Contains(netloc, "twitter") \/ Contains(netloc, "t.co")
         THEN "Twitter"
    ELSE IF Contains(netloc, "facebook") THEN "Facebook"
    ELSE IF Contains(netloc, "baidu") THEN "Baidu"
    ELSE IF Contains(netloc, "dingtalk") THEN "DingTalk"
    ELSE IF Contains(netloc, "weixin") \/ Contains(netloc, "wechat")
         THEN "WeChat"
    ELSE netloc

\* step 3: the referrer
ReferrerLabel(referrer, current_url) ==
    IF referrer = "" THEN "Direct Entry"
    ELSE IF ~urlparse(referrer).ok \/ ~urlparse(current_url).ok THEN "Unknown"
    ELSE NetlocLabel(urlparse(referrer).netloc, urlparse(current_url).netloc)

normalize_referrer_ua_first(referrer, current_url, user_agent) ==
    IF UaLabel(user_agent) # None THEN UaLabel(user_agent)[1]
    ELSE IF UtmLabel(current_url) # None THEN UtmLabel(current_url)[1]
    ELSE ReferrerLabel(referrer, current_url)

normalize_referrer(referrer, current_url, user_agent) ==
    IF UtmLabel(current_url) # None THEN UtmLabel(current_url)[1]
    ELSE IF UaLabel(user_agent) # None THEN UaLabel(user_agent)[1]
    ELSE ReferrerLabel(referrer, current_url)

(***************************************************************************)
(* The events table.  A row is the columns the aggregations read; the table *)
(* is a bag of rows, and only ORDER BY gives a query result an order.       *)
(***************************************************************************)
\* a or b
Or(a, b) == IF a = None \/ a = Some("") THEN b ELSE a

\* the Event row track_event builds from a payload and the request's headers
EventOf(payload, header_user_agent) ==
    [event_type |-> payload.event_type,
     url        |-> payload.url,
     referrer   |-> payload.referrer,
     timestamp  |-> payload.timestamp,
     session_id |-> payload.session_id,
     visitor_id |-> payload.visitor_id,
     user_agent |-> Or(payload.user_agent, header_user_agent),
     data       |-> payload.data]

\* the orders ORDER BY timestamp may return the rows of a bag in: ascending
\* for sign = 1, descending for sign = -1; rows of equal timestamp come in
\* any order
RECURSIVE Orderings(_, _)
Orderings(rows, sign) ==
    IF rows = EmptyBag THEN {<<>>}
    ELSE UNION {{<<e>> \o rest :
                    rest \in Orderings(rows (-) SetToBag({e}), sign)} :
                e \in {e \in BagToSet(rows) : \A f \in BagToSet(rows) :
                          sign * e.timestamp <= sign * f.timestamp}}

\* .filter(Event.event_type == t)
OfType(rows, t) ==
    [e \in {e \in BagToSet(rows) : e.event_type = t} |-> rows[e]]

\* .limit(n), and the slice [:n]
Limit(events, n) ==
    IF Len(events) <= n THEN events ELSE SubSeq(events, 1, n)

SankeyLimit == 2000

StatsLimit == 5000

(***************************************************************************)
(* The payloads the model collects.                                         *)
(***************************************************************************)
\* payload.data with neither key; the keys are source and duration_seconds,
\* and a duration is a number n (num) or a text that is none
NoData == [source |-> None, duration_seconds |-> None]

Seconds(n) == [source |-> None, duration_seconds |-> Some([num |-> TRUE, n |-> n])]

Payload(type, page, session, visitor, time, agent, data) ==
    [event_type |-> type,
     url        |-> page.url,
     referrer   |-> page.referrer,
     timestamp  |-> time,
     session_id |-> session,
     visitor_id |-> visitor,
     user_agent |-> agent,
     data       |-> data]

HeaderAgents == {Some("Mozilla/5.0 Chrome/120")}

\* page views of two sessions of the site x.co, and a click among them
FlowPages ==
    {[url |-> "http://x.co/",         referrer |-> Some("https://www.google.com/")],
     [url |-> "http://x.co/",         referrer |-> Some("http://x.co/courses")],
     [url |-> "http://x.co/courses",  referrer |-> Some("http://x.co/")],
     [url |-> "http://x.co/course/4", referrer |-> Some("http://x.co/courses")],
     [url |-> "http://x.co/courses",  referrer |-> None]}

FlowSessions == {"s1", "s2"}

FlowPayloads ==
    {Payload("pageview", pg, sid, Some("v1"), t, None, NoData) :
        pg \in FlowPages, sid \in FlowSessions, t \in 1..MaxTime}
    \cup
    {Payload("click", pg, "s1", Some("v1"), 1, None, NoData) :
        pg \in {p \in FlowPages : p.referrer = None}}

\* page views with six page categories and six sources, some of them at the
\* same instant
StatsPayloads ==
    {Payload("pageview",
             [url |-> "http://x.co/", referrer |-> Some("https://www.google.com/")],
             "s1", Some("v1"), 3, None, NoData),
     Payload("pageview",
             [url |-> "http://x.co/courses", referrer |-> None],
             "s1", Some("v1"), 1, None, NoData),
     Payload("pageview",
             [url |-> "http://x.co/course/4", referrer |-> Some("https://t.co/a")],
             "s2", Some("v1"), 2, Some("Mozilla/5.0 (iPhone) Mobile"), NoData),
     Payload("pageview",
             [url |-> "http://x.co/login", referrer |-> Some("https://bing.com/")],
             "s2", Some("v2"), 2, None, NoData),
     Payload("pageview",
             [url |-> "http://x.co/about", referrer |-> Some("http://x.co/")],
             "s3", Some("v2"), 1, None,
             [source |-> Some("mail"), duration_seconds |-> None]),
     Payload("pageview",
             [url |-> "http://x.co/rankings?utm_source=wechat", referrer |-> None],
             "s3", None, 3, Some("Mozilla/5.0 MicroMessenger/8.0"), NoData)}

\* engagement reports of two sessions, and a page view of a third
EngagementPage == [url |-> "http://x.co/courses", referrer |-> None]

EngagementPayloads ==
    {Payload("user_engagement", EngagementPage, "s1", Some("v1"), 1, None, Seconds(100)),
     Payload("user_engagement", EngagementPage, "s1", Some("v1"), 2, None, Seconds(2000)),
     Payload("user_engagement", EngagementPage, "s2", Some("v2"), 3, None, Seconds(-5)),
     Payload("user_engagement", EngagementPage, "s2", Some("v2"), 4, None, Seconds(90000)),
     Payload("user_engagement", EngagementPage, "s1", Some("v1"), 5, None, NoData),
     Payload("user_engagement", EngagementPage, "s2", Some("v2"), 6, None,
             [source |-> None,
              duration_seconds |-> Some([num |-> FALSE, n |-> 0])]),
     Payload("pageview", EngagementPage, "s3", Some("v2"), 7, None, NoData)}

\* page views among events of other types, each at an instant of its own: a
\* click of a visitor, a session, a page, a source and a device no page view
\* has, and engagement reports with a number, with a text that is no number
\* and with data that holds no duration
MixedPayloads ==
    {Payload("pageview",
             [url |-> "http://x.co/", referrer |-> Some("https://www.google.com/")],
             "s1", Some("v1"), 6, None, NoData),
     Payload("pageview",
             [url |-> "http://x.co/course/4", referrer |-> Some("https://t.co/a")],
             "s2", Some("v1"), 5, None, NoData),
     Payload("pageview",
             [url |-> "http://x.co/about", referrer |-> Some("http://x.co/")],
             "s3", Some("v2"), 4, None,
             [source |-> Some("mail"), duration_seconds |-> None]),
     Payload("click",
             [url |-> "http://x.co/login", referrer |-> Some("https://bing.com/")],
             "s4", Some("v3"), 3, Some("Mozilla/5.0 (Linux; Android 14)"), NoData),
     Payload("user_engagement", EngagementPage, "s5", Some("v4"), 2, None,
             Seconds(100)),
     Payload("user_engagement", EngagementPage, "s1", Some("v1"), 1, None,
             [source |-> None,
              duration_seconds |-> Some([num |-> FALSE, n |-> 0])]),
     Payload("user_engagement", EngagementPage, "s2", Some("v1"), 7, None,
             [source |-> Some("mail"), duration_seconds |-> None])}

\* page views of two sessions at the instants 1..MaxWindowTime
WindowPayloads ==
    {Payload("pageview", pg, sid, Some("v1"), t, None, NoData) :
        pg \in {p \in FlowPages : p.referrer \in {None, Some("https://www.google.com/")}},
        sid \in FlowSessions, t \in 1..MaxWindowTime}

AllEvents ==
    {EventOf(p, h) : p \in FlowPayloads \cup StatsPayloads
                              \cup EngagementPayloads \cup MixedPayloads
                              \cup WindowPayloads,
                     h \in HeaderAgents}

\* the arguments the aggregations give normalize_referrer for an event
raw_ref(event) == OrEmpty(event.referrer)

raw_ua(event) == OrEmpty(event.user_agent)

\* normalize_url and normalize_referrer on the events of the model, tabulated
UrlCategory == [u \in {e.url : e \in AllEvents} |-> normalize_url(u)]

SourceLabel ==
    [k \in {<<raw_ref(e), e.url, raw_ua(e)>> : e \in AllEvents} |->
        normalize_referrer(k[1], k[2], k[3])]

(***************************************************************************)
(* get_sankey_data: the session paths.                                      *)
(***************************************************************************)
\* sessions[session_id].append(norm_url), on a defaultdict(list)
AppendUrl(sessions, session_id, norm_url) ==
    IF session_id \in DOMAIN sessions
    THEN [sessions EXCEPT ![session_id] = Append(@, norm_url)]
    ELSE sessions @@ (session_id :> <<norm_url>>)

CaptureReferrer_overwrite(session_referrers, event) ==
    IF event.session_id \in DOMAIN session_referrers
    THEN [session_referrers EXCEPT ![event.session_id] =
            SourceLabel[<<raw_ref(event), event.url, raw_ua(event)>>]]
    ELSE session_referrers @@
            (event.session_id :>
                SourceLabel[<<raw_ref(event), event.url, raw_ua(event)>>])

\* the referrer of a session is captured from its first event only
CaptureReferrer(session_referrers, event) ==
    IF event.session_id \in DOMAIN session_referrers
    THEN session_referrers
    ELSE session_referrers @@
            (event.session_id :>
                SourceLabel[<<raw_ref(event), event.url, raw_ua(event)>>])

\* the body of the loop over the events, on its locals; order is the
\* insertion order of the keys of sessions
GroupEvent(acc, event) ==
    [order    |-> IF event.session_id \in DOMAIN acc.sessions
                  THEN acc.order
                  ELSE Append(acc.order, event.session_id),
     sessions |-> AppendUrl(acc.sessions, event.session_id,
                            UrlCategory[event.url]),
     session_referrers |-> CaptureReferrer(acc.session_referrers, event)]

\* the locals after the first n events
RECURSIVE GroupEvents(_, _)
GroupEvents(events, n) ==
    IF n = 0
    THEN [order |-> <<>>, sessions |-> <<>>, session_referrers |-> <<>>]
    ELSE GroupEvent(GroupEvents(events, n - 1), events[n])

(***************************************************************************)
(* get_sankey_data: the links and the nodes.                                *)
(***************************************************************************)
EmptyGraph == [links_count |-> <<>>, nodes |-> {}]

AddLink_no_aggregation(g, s, t) ==
    [links_count |-> IF <<s, t>> \in DOMAIN g.links_count
                     THEN g.links_count
                     ELSE g.links_count @@ (<<s, t>> :> 1),
     nodes       |-> g.nodes \cup {s, t}]

\* links_count[(s, t)] += 1; nodes.add(s); nodes.add(t)
AddLink(g, s, t) ==
    [links_count |-> IF <<s, t>> \in DOMAIN g.links_count
                     THEN [g.links_count EXCEPT ![<<s, t>>] = @ + 1]
                     ELSE g.links_count @@ (<<s, t>> :> 1),
     nodes       |-> g.nodes \cup {s, t}]

Layer0_internal_too(g, referrer, urls) ==
    AddLink(g, referrer \o " (Source)", urls[1] \o " (Step 1)")

Layer0_node_without_link(g, referrer, urls) ==
    IF referrer # "Internal"
    THEN AddLink(g, referrer \o " (Source)", urls[1] \o " (Step 1)")
    ELSE [g EXCEPT !.nodes = @ \cup {urls[1] \o " (Step 1)"}]

\* Layer 0: the source to the first page, unless the source is internal
Layer0(g, referrer, urls) ==
    IF referrer # "Internal"
    THEN AddLink(g, referrer \o " (Source)", urls[1] \o " (Step 1)")
    ELSE g

\* the link of a layer, added when its two node names differ
LinkUnlessSame(g, s, t) == IF s # t THEN AddLink(g, s, t) ELSE g

\* Layer 1: the first page to the second
Layer1(g, urls) ==
    IF Len(urls) >= 2
    THEN LinkUnlessSame(g, urls[1] \o " (Step 1)", urls[2] \o " (Step 2)")
    ELSE g

\* Layer 2: the second page to the third, inside Layer 1's condition
Layer2(g, urls) ==
    IF Len(urls) >= 3
    THEN LinkUnlessSame(g, urls[2] \o " (Step 2)", urls[3] \o " (Step 3)")
    ELSE g

\* the body of the loop over sessions.items()
SessionLinks(g, referrer, urls) ==
    IF urls = <<>> THEN g
    ELSE Layer2(Layer1(Layer0(g, referrer, urls), urls), urls)

\* session_referrers.get(session_id, "Direct Entry")
ReferrerOf(session_referrers, session_id) ==
    IF session_id \in DOMAIN session_referrers
    THEN session_referrers[session_id]
    ELSE "Direct Entry"

\* the loop over the sessions: links_count and nodes after the first k of them
RECURSIVE BuildGraph(_, _)
BuildGraph(grouped, k) ==
    IF k = 0 THEN EmptyGraph
    ELSE SessionLinks(BuildGraph(grouped, k - 1),
                      ReferrerOf(grouped.session_referrers, grouped.order[k]),
                      grouped.sessions[grouped.order[k]])

\* echarts_links
EchartsLinks(links_count) ==
    {[source |-> k[1], target |-> k[2], value |-> links_count[k]] :
        k \in DOMAIN links_count}

\* what get_sankey_data answers from the events its query returned
SankeyResponse(events, grouped, graph) ==
    [op                |-> "sankey",
     events            |-> events,
     sessions          |-> grouped.sessions,
     session_referrers |-> grouped.session_referrers,
     nodes             |-> graph.nodes,
     links             |-> EchartsLinks(graph.links_count)]

SankeyOfGrouped(events, grouped) ==
    SankeyResponse(events, grouped, BuildGraph(grouped, Len(grouped.order)))

SankeyOf(events) == SankeyOfGrouped(events, GroupEvents(events, Len(events)))

(***************************************************************************)
(* get_analytics_stats.                                                     *)
(***************************************************************************)
TopN == 5

\* len(set(e.visitor_id for e in events))
total_users_of_pageviews(events) ==
    Cardinality({events[i].visitor_id :
        i \in {k \in 1..Len(events) : events[k].event_type = "pageview"}})

total_users(events) ==
    Cardinality({events[i].visitor_id : i \in 1..Len(events)})

\* len(set(e.session_id for e in events))
total_sessions(events) ==
    Cardinality({events[i].session_id : i \in 1..Len(events)})

\* the events of one type, in the order of the list
EventsOfType(events, t) == SelectSeq(events, LAMBDA e : e.event_type = t)

\* int(e.data.get('duration_seconds', 0)) raises on a text that is no number
IntRaises(e) ==
    /\ e.data # NoData
    /\ e.data.duration_seconds # None
    /\ ~e.data.duration_seconds[1].num

\* int(e.data.get('duration_seconds', 0)) for an event with data
DurationOf(e) ==
    IF e.data = NoData \/ e.data.duration_seconds = None
    THEN 0
    ELSE e.data.duration_seconds[1].n

\* sum(... for e in engagement_events if e.data)
RECURSIVE total_duration(_)
total_duration(engagement_events) ==
    IF engagement_events = <<>> THEN 0
    ELSE DurationOf(Head(engagement_events))
            + total_duration(Tail(engagement_events))

\* round(total / sessions, 1), in tenths: the nearest tenth, the even one of
\* two equally near
RoundTenths(total, sessions) ==
    IF (20 * total + sessions) % (2 * sessions) = 0
       /\ ((20 * total + sessions) \div (2 * sessions)) % 2 = 1
    THEN ((20 * total + sessions) \div (2 * sessions)) - 1
    ELSE (20 * total + sessions) \div (2 * sessions)

\* avg_engagement_time, in tenths of a second
avg_engagement_time(total, sessions) ==
    IF sessions > 0 THEN RoundTenths(total, sessions) ELSE 0

SourceOf_ignores_data_source(e) ==
    SourceLabel[<<raw_ref(e), e.url, raw_ua(e)>>]

\* src, the label top_sources counts a page view under
SourceOf(e) ==
    IF e.data.source # None /\ e.data.source # Some("")
    THEN e.data.source[1] \o " (UTM)"
    ELSE SourceLabel[<<raw_ref(e), e.url, raw_ua(e)>>]

\* path, the label top_pages counts a page view under
PageOf(e) == UrlCategory[e.url]

DeviceClass ==
    [ua \in {raw_ua(e) : e \in AllEvents} |->
        IF Contains(Lower(ua), "mobile") \/ Contains(Lower(ua), "android")
           \/ Contains(Lower(ua), "iphone")
        THEN "Mobile" ELSE "Desktop"]

\* dev, the label devices counts a page view under
DeviceOf(e) == DeviceClass[raw_ua(e)]

\* counts[name] += 1 on a defaultdict(int), which keeps its keys in the order
\* they were first set
Increment(counts, name) ==
    IF \E i \in 1..Len(counts) : counts[i].name = name
    THEN [i \in 1..Len(counts) |->
            IF counts[i].name = name
            THEN [name |-> name, value |-> counts[i].value + 1]
            ELSE counts[i]]
    ELSE Append(counts, [name |-> name, value |-> 1])

\* the labels of the page views, in the order the loops meet them
SourcesOf(pageviews) == [i \in 1..Len(pageviews) |-> SourceOf(pageviews[i])]

PagesOf(pageviews) == [i \in 1..Len(pageviews) |-> PageOf(pageviews[i])]

DevicesOf(pageviews) == [i \in 1..Len(pageviews) |-> DeviceOf(pageviews[i])]

\* the tally of the first n labels
RECURSIVE Tally(_, _)
Tally(labels, n) ==
    IF n = 0 THEN <<>>
    ELSE Increment(Tally(labels, n - 1), labels[n])

\* items without its i-th
Remove(items, i) ==
    SubSeq(items, 1, i - 1) \o SubSeq(items, i + 1, Len(items))

Max(S) == CHOOSE x \in S : \A y \in S : y <= x

\* one step of sorted(items, key=value, reverse=True): the first of the
\* greatest items moves to the front; the sort is stable
FirstGreatest(items) ==
    Min({k \in 1..Len(items) :
            \A j \in 1..Len(items) : items[j].value <= items[k].value})

LastGreatest(items) ==
    Max({k \in 1..Len(items) :
            \A j \in 1..Len(items) : items[j].value <= items[k].value})

RECURSIVE SortedDesc(_, _)
SortedDesc_ties_reversed(items, n) ==
    IF n = 0 THEN <<>>
    ELSE <<items[LastGreatest(items)]>>
         \o SortedDesc(Remove(items, LastGreatest(items)), n - 1)

SortedDesc(items, n) ==
    IF n = 0 THEN <<>>
    ELSE <<items[FirstGreatest(items)]>>
         \o SortedDesc(Remove(items, FirstGreatest(items)), n - 1)

\* sorted(counts.items(), key=lambda x: x[1], reverse=True)[:5]
Top(counts) == Limit(SortedDesc(counts, Len(counts)), TopN)

\* what get_analytics_stats answers from the events its query returned
StatsReport(events, pageviews) ==
    [op                  |-> "stats",
     error               |-> FALSE,
     events              |-> events,
     users               |-> total_users(events),
     sessions            |-> total_sessions(events),
     page_views          |-> Len(pageviews),
     avg_engagement_time |->
        avg_engagement_time(
            total_duration(EventsOfType(events, "user_engagement")),
            total_sessions(events)),
     top_sources         |-> Top(Tally(SourcesOf(pageviews), Len(pageviews))),
     top_pages           |-> Top(Tally(PagesOf(pageviews), Len(pageviews))),
     devices             |-> Tally(DevicesOf(pageviews), Len(pageviews))]

\* the events that make int() raise
Raising(events) ==
    {i \in 1..Len(events) :
        events[i].event_type = "user_engagement" /\ IntRaises(events[i])}

StatsOf_partial(events) ==
    IF Raising(events) # {}
    THEN [op |-> "stats", error |-> TRUE, events |-> events,
          users |-> total_users(events), sessions |-> total_sessions(events),
          page_views |-> Len(EventsOfType(events, "pageview"))]
    ELSE StatsReport(events, EventsOfType(events, "pageview"))

\* the except branch answers {"error": ...}
StatsOf(events) ==
    IF \E i \in 1..Len(events) :
          events[i].event_type = "user_engagement" /\ IntRaises(events[i])
    THEN [op |-> "stats", error |-> TRUE, events |-> events]
    ELSE StatsReport(events, EventsOfType(events, "pageview"))

(***************************************************************************)
(* The endpoints.                                                           *)
(***************************************************************************)
NoRequest == [fn |-> "none"]

NoResponse == [op |-> "none"]

Init ==
    /\ store = EmptyBag
    /\ request = NoRequest
    /\ response = NoResponse

\* POST /api/collect; cap bounds the table of the model
track_event(payload, header_user_agent, cap) ==
    /\ BagCardinality(store) < cap
    /\ store' = store (+) SetToBag({EventOf(payload, header_user_agent)})
    /\ response' = [op |-> "collect", status |-> "ok"]
    /\ UNCHANGED request

\* the sankey request with the row cap of its query as a parameter
sankey_request(limit) ==
    \E rows \in Orderings(OfType(store, "pageview"), 1) :
        /\ response' = SankeyOf(Limit(rows, limit))
        /\ UNCHANGED <<store, request>>

\* GET /api/analytics/sankey
get_sankey_data == sankey_request(SankeyLimit)

\* DELETE /api/analytics/clear
clear_data ==
    /\ store' = EmptyBag
    /\ response' = [op |-> "clear", status |-> "success"]
    /\ UNCHANGED request

CollectFlow ==
    \E payload \in FlowPayloads, h \in HeaderAgents :
        track_event(payload, h, MaxEvents)

NextFlow == CollectFlow \/ get_sankey_data \/ clear_data

Spec == Init /\ [][NextFlow]_vars

\* the stats request with the row cap of its query as a parameter
stats_request(limit) ==
    \E rows \in Orderings(store, -1) :
        /\ response' = StatsOf(Limit(rows, limit))
        /\ UNCHANGED <<store, request>>

\* GET /api/analytics/stats
get_analytics_stats == stats_request(StatsLimit)

CollectStats ==
    \E payload \in StatsPayloads, h \in HeaderAgents :
        track_event(payload, h, MaxStatsEvents)

NextStats == CollectStats \/ get_analytics_stats \/ clear_data

SpecStats == Init /\ [][NextStats]_vars

CollectEngagement ==
    \E payload \in EngagementPayloads, h \in HeaderAgents :
        track_event(payload, h, MaxEngagementEvents)

NextEngagement == CollectEngagement \/ get_analytics_stats \/ clear_data

SpecEngagement == Init /\ [][NextEngagement]_vars

\* GET /api/analytics/sankey when the query raises: the except branch answers
\* the empty graph
get_sankey_data_db_error ==
    /\ response' = [op |-> "sankey", failed |-> TRUE, nodes |-> {}, links |-> {}]
    /\ UNCHANGED <<store, request>>

\* GET /api/analytics/stats when the query raises
get_analytics_stats_db_error ==
    /\ response' = [op |-> "stats", error |-> TRUE, events |-> <<>>]
    /\ UNCHANGED <<store, request>>

CollectMixed ==
    \E payload \in MixedPayloads, h \in HeaderAgents :
        track_event(payload, h, MaxMixedEvents)

NextMixed == CollectMixed \/ get_analytics_stats \/ clear_data

SpecMixed == Init /\ [][NextMixed]_vars

\* a collect whose timestamp is later than every timestamp of the table: the
\* clients' clocks agree with the order of arrival
CollectInOrder ==
    \E payload \in WindowPayloads, h \in HeaderAgents :
        /\ \A e \in BagToSet(store) : e.timestamp < payload.timestamp
        /\ track_event(payload, h, MaxWindowTime)

\* the two aggregations under the scaled row cap
get_sankey_data_scaled == sankey_request(ScaledRowCap)

get_analytics_stats_scaled == stats_request(ScaledRowCap)

NextWindow ==
    \/ CollectInOrder
    \/ get_sankey_data_scaled
    \/ get_analytics_stats_scaled
    \/ clear_data

SpecWindow == Init /\ [][NextWindow]_vars

NextFaults ==
    \/ CollectMixed
    \/ get_analytics_stats
    \/ get_analytics_stats_db_error
    \/ get_sankey_data
    \/ get_sankey_data_db_error
    \/ clear_data

SpecFaults == Init /\ [][NextFaults]_vars

(***************************************************************************)
(* The URLs normalize_url is applied to: every combination of the parts     *)
(* below that is a URL (a path after a host starts with '/').               *)
(***************************************************************************)
UrlSchemes == {"", "http:", "https:"}

UrlNetlocs == {"", "//x.co", "//x.co:8080", "//[x"}

UrlPaths ==
    {"", "/", "/course/42/", "/course", "/courses", "/courses/new",
     "/rankings", "/login", "/register", "/admin", "/about", "not a url"}

UrlQueries == {"", "?utm_source=google", "?next=/course/7"}

UrlFragments == {"", "#/login"}

UrlParts ==
    {p \in [scheme : UrlSchemes, netloc : UrlNetlocs, path : UrlPaths,
            query : UrlQueries, fragment : UrlFragments] :
        p.netloc # "" => (p.path = "" \/ StartsWith(p.path, "/"))}

BuildUrl(p) == p.scheme \o p.netloc \o p.path \o p.query \o p.fragment

InitUrl ==
    /\ store = EmptyBag
    /\ request \in {[fn |-> "normalize_url", parts |-> p, url |-> BuildUrl(p)] :
                        p \in UrlParts}
    /\ response = NoResponse

CallNormalizeUrl ==
    /\ request.fn = "normalize_url"
    /\ response = NoResponse
    /\ response' = [op  |-> "normalize_url",
                    ret |-> normalize_url(request.url)]
    /\ UNCHANGED <<store, request>>

SpecUrl == InitUrl /\ [][CallNormalizeUrl]_vars

(***************************************************************************)
(* The (referrer, landing URL, user agent) triples normalize_referrer is    *)
(* applied to.  A landing URL is http://<netloc>/courses?a=1 with or        *)
(* without a utm_source parameter; a referrer is absent ("") or             *)
(* <scheme>://<netloc><path>.                                               *)
(***************************************************************************)
LandingNetlocs == {"x.co", "x.co:8080", "[x"}

UtmValues == {None, Some("google"), Some("WeChat"), Some("dingtalk"),
              Some("news"), Some("")}

LandingParts == [netloc : LandingNetlocs, utm : UtmValues]

BuildLanding(p) ==
    "http://" \o p.netloc \o "/courses?a=1"
        \o (IF p.utm = None THEN "" ELSE "&utm_source=" \o p.utm[1])

ReferrerNetlocs ==
    {"x.co", "x.co:8080", "www.google.com", "bing.com", "twitter.com", "t.co",
     "facebook.com", "baidu.com", "dingtalk.com", "mp.weixin.qq.com",
     "wechat.com", "blog.io", "[y"}

NoReferrer == [scheme |-> "", netloc |-> "", path |-> ""]

ReferrerParts ==
    {NoReferrer} \cup
    [scheme : {"http", "https"}, netloc : ReferrerNetlocs, path : {"/", "/page2"}]

BuildReferrer(p) ==
    IF p = NoReferrer THEN "" ELSE p.scheme \o "://" \o p.netloc \o p.path

UserAgents ==
    {"", "Mozilla/5.0 Chrome/120", "Mozilla/5.0 MicroMessenger/8.0",
     "Mozilla/5.0 DingTalk/6.5", "Mozilla/5.0 QQ/8.9", "Weibo (iPhone)"}

InitRef ==
    /\ store = EmptyBag
    /\ request \in {[fn         |-> "normalize_referrer",
                     landing    |-> l,
                     ref        |-> r,
                     referrer   |-> BuildReferrer(r),
                     url        |-> BuildLanding(l),
                     user_agent |-> ua] :
                        l \in LandingParts, r \in ReferrerParts, ua \in UserAgents}
    /\ response = NoResponse

CallNormalizeReferrer ==
    /\ request.fn = "normalize_referrer"
    /\ response = NoResponse
    /\ response' = [op  |-> "normalize_referrer",
                    ret |-> normalize_referrer(request.referrer, request.url,
                                               request.user_agent)]
    /\ UNCHANGED <<store, request>>

SpecRef == InitRef /\ [][CallNormalizeReferrer]_vars

(***************************************************************************)
(* Claims about normalize_url (under SpecUrl).                              *)
(***************************************************************************)
UrlReturned == request.fn = "normalize_url" /\ response.op = "normalize_url"

\* the host part of a URL is one urlparse accepts
NetlocParses(netloc) == Contains(netloc, "[") <=> Contains(netloc, "]")

\* a string no URL grammar produces: it holds a blank or an unclosed bracket
Malformed(url) == Contains(url, " ") \/ ~NetlocParses(url)

\* C3: every input that is not a well-formed URL, "not a url" among them, is
\* normalised to "Unknown" and never to a category of its own.
C3_MalformedIsUnknown ==
    (UrlReturned /\ Malformed(request.url)) => response.ret = "Unknown"

PrefixCategories ==
    << <<"/course/", "Course Detail">>, <<"/courses", "Course List">>,
       <<"/rankings", "Rankings">>, <<"/login", "Login">>,
       <<"/register", "Register">>, <<"/admin", "Admin">> >>

\* the category the prefix table gives a path: the first matching row's
CategoryOfPath(path) ==
    LET rows == {i \in DOMAIN PrefixCategories :
                    StartsWith(path, PrefixCategories[i][1])}
    IN  IF path = "" \/ path = "/" THEN "Home"
        ELSE IF rows = {} THEN path
        ELSE PrefixCategories[Min(rows)][2]

\* C4: for every URL that parses, normalize_url returns "Home" for an empty
\* or "/" path, otherwise the category of the first matching prefix, otherwise
\* the path itself; scheme, host, query and fragment have no influence.
C4_CategoryFromPathOnly ==
    (UrlReturned /\ NetlocParses(request.parts.netloc))
        => response.ret = CategoryOfPath(request.parts.path)

C4_Witness ==
    /\ UrlReturned
    /\ request.parts.scheme = "https:"
    /\ request.parts.netloc = "//x.co:8080"
    /\ request.parts.path = "/courses/new"
    /\ request.parts.query = "?next=/course/7"
    /\ request.parts.fragment = "#/login"
    /\ response.ret = "Course List"

(***************************************************************************)
(* Claims about normalize_referrer (under SpecRef).                         *)
(***************************************************************************)
RefReturned ==
    request.fn = "normalize_referrer" /\ response.op = "normalize_referrer"

UaTable ==
    << <<"micromessenger", "WeChat">>, <<"dingtalk", "DingTalk">>,
       <<"qq/", "QQ">>, <<"weibo", "Weibo">> >>

HostTable ==
    << <<"google", "Google Search">>, <<"bing", "Bing Search">>,
       <<"twitter", "Twitter">>, <<"t.co", "Twitter">>,
       <<"facebook", "Facebook">>, <<"baidu", "Baidu">>,
       <<"dingtalk", "DingTalk">>, <<"weixin", "WeChat">>,
       <<"wechat", "WeChat">> >>

UtmTable ==
    << <<"wechat", "WeChat">>, <<"dingtalk", "DingTalk">>,
       <<"google", "Google Search">> >>

\* the rules of the classifier for one request, in their order of precedence,
\* read off the parts the request was built from
Rules(req) ==
    LET utm     == IF req.landing.utm = None THEN "" ELSE Lower(req.landing.utm[1])
        hasUtm  == NetlocParses(req.landing.netloc) /\ utm # ""
        ua      == Lower(req.user_agent)
        host    == req.ref.netloc
        parses  == NetlocParses(host) /\ NetlocParses(req.landing.netloc)
    IN  [i \in 1..3 |-> [when  |-> hasUtm /\ utm = UtmTable[i][1],
                          label |-> UtmTable[i][2]]]
        \o << [when |-> hasUtm, label |-> Capitalize(utm) \o " (UTM)"] >>
        \o [i \in 1..4 |-> [when  |-> Contains(ua, UaTable[i][1]),
                             label |-> UaTable[i][2]]]
        \o << [when |-> req.ref = NoReferrer, label |-> "Direct Entry"],
              [when |-> ~parses, label |-> "Unknown"],
              [when |-> host = req.landing.netloc, label |-> "Internal"] >>
        \o [i \in 1..9 |-> [when  |-> Contains(host, HostTable[i][1]),
                             label |-> HostTable[i][2]]]
        \o << [when |-> TRUE, label |-> host] >>

FirstSatisfied(rules) == rules[Min({i \in DOMAIN rules : rules[i].when})].label

HostOf(netloc) ==
    LET c == Find(netloc, ":", 1)
    IN  IF c = 0 THEN netloc ELSE Slice(netloc, 1, c - 1)

\* C6: with no utm_source and no matching user agent, a present referrer is
\* "Internal" exactly when its host is the landing URL's host, whatever the
\* scheme, the port and the path.
C6_InternalIffSameHost ==
    (/\ RefReturned
     /\ request.landing.utm = None
     /\ \A i \in DOMAIN UaTable :
            ~Contains(Lower(request.user_agent), UaTable[i][1])
     /\ request.ref # NoReferrer
     /\ NetlocParses(request.ref.netloc)
     /\ NetlocParses(request.landing.netloc))
        => (response.ret = "Internal"
                <=> HostOf(request.ref.netloc) = HostOf(request.landing.netloc))

(***************************************************************************)
(* Claims about get_sankey_data, checked under Spec.                        *)
(***************************************************************************)
SankeyAnswered == response.op = "sankey"

PathOf(sid) == response.sessions[sid]

FirstSourceOf(sid) == response.session_referrers[sid]

SessionIds == DOMAIN response.sessions

\* the count of the link from s to t in the answer, 0 when there is none
LinkValue(s, t) ==
    IF \E l \in response.links : l.source = s /\ l.target = t
    THEN (CHOOSE l \in response.links : l.source = s /\ l.target = t).value
    ELSE 0

SourceNode(label) == label \o " (Source)"

Step1(category) == category \o " (Step 1)"

Step2(category) == category \o " (Step 2)"

Step3(category) == category \o " (Step 3)"

\* C1: a session whose first and second categories are equal adds nothing to
\* the link from that category at Step 1 to it at Step 2, and one whose second
\* and third are equal adds nothing to the link from Step 2 to Step 3; every
\* session that could add to such a link has the same two equal categories,
\* so the link is absent from the answer.
C1_SelfLoopsSuppressed ==
    SankeyAnswered =>
        \A sid \in SessionIds :
            /\ (Len(PathOf(sid)) >= 2 /\ PathOf(sid)[1] = PathOf(sid)[2])
                => LinkValue(Step1(PathOf(sid)[1]), Step2(PathOf(sid)[2])) = 0
            /\ (Len(PathOf(sid)) >= 3 /\ PathOf(sid)[2] = PathOf(sid)[3])
                => LinkValue(Step2(PathOf(sid)[2]), Step3(PathOf(sid)[3])) = 0

\* the rows of a list, as a bag
SeqToBag(seq) ==
    [e \in {seq[i] : i \in 1..Len(seq)} |->
        Cardinality({i \in 1..Len(seq) : seq[i] = e})]

\* the page views of a session, in the order of the list
PageviewsOf(events, sid) == SelectSeq(events, LAMBDA e : e.session_id = sid)

Classification(e) == SourceLabel[<<raw_ref(e), e.url, raw_ua(e)>>]

\* C7: whatever the order the events arrived in (the table keeps none), the
\* answer is computed from the page views of the table in ascending order of
\* timestamp; the path of each session is the categories of its page views
\* in that order, and its first source is the classification of the first of
\* them, whatever the later ones would classify as.
C7_PathsInTimeOrder ==
    SankeyAnswered =>
        /\ SeqToBag(response.events) = OfType(store, "pageview")
        /\ \A i, j \in 1..Len(response.events) :
              i < j => response.events[i].timestamp
                          <= response.events[j].timestamp
        /\ SessionIds =
              {response.events[i].session_id : i \in 1..Len(response.events)}
        /\ DOMAIN response.session_referrers = SessionIds
        /\ \A sid \in SessionIds :
              /\ PathOf(sid) =
                    [i \in 1..Len(PageviewsOf(response.events, sid)) |->
                        UrlCategory[PageviewsOf(response.events, sid)[i].url]]
              /\ FirstSourceOf(sid) =
                    Classification(PageviewsOf(response.events, sid)[1])

\* a session whose second page view is later than its first, is of another
\* category and would classify as another source
C7_Witness ==
    /\ SankeyAnswered
    /\ \E sid \in SessionIds :
          /\ Len(PathOf(sid)) >= 2
          /\ PathOf(sid)[1] # PathOf(sid)[2]
          /\ PageviewsOf(response.events, sid)[1].timestamp
                < PageviewsOf(response.events, sid)[2].timestamp
          /\ Classification(PageviewsOf(response.events, sid)[2])
                # FirstSourceOf(sid)

\* session sid goes from node s to node t at one of the three stages
HasTransition(sid, s, t) ==
    \/ s = SourceNode(FirstSourceOf(sid)) /\ t = Step1(PathOf(sid)[1])
    \/ /\ Len(PathOf(sid)) >= 2
       /\ s = Step1(PathOf(sid)[1]) /\ t = Step2(PathOf(sid)[2])
    \/ /\ Len(PathOf(sid)) >= 3
       /\ s = Step2(PathOf(sid)[2]) /\ t = Step3(PathOf(sid)[3])

\* C8: there is one link for a pair of nodes, and its count is the number of
\* sessions that go from the one node to the other within their first three
\* categories; two sessions from Home to Course List give that link the count
\* 2, and one session Home, Course List, Course Detail that came from Google
\* gives exactly its three links, each of count 1.
C8_LinkCountsSessions ==
    SankeyAnswered =>
        /\ \A l \in response.links :
              l.value = Cardinality({sid \in SessionIds :
                            HasTransition(sid, l.source, l.target)})
        /\ \A l, m \in response.links :
              (l.source = m.source /\ l.target = m.target) => l = m
        /\ (/\ Cardinality(SessionIds) = 2
            /\ \A sid \in SessionIds :
                  /\ Len(PathOf(sid)) >= 2
                  /\ PathOf(sid)[1] = "Home"
                  /\ PathOf(sid)[2] = "Course List")
           => [source |-> "Home (Step 1)", target |-> "Course List (Step 2)",
               value |-> 2] \in response.links
        /\ (\E sid \in SessionIds :
              /\ SessionIds = {sid}
              /\ PathOf(sid) = <<"Home", "Course List", "Course Detail">>
              /\ FirstSourceOf(sid) = "Google Search")
           => response.links =
                {[source |-> "Google Search (Source)",
                  target |-> "Home (Step 1)", value |-> 1],
                 [source |-> "Home (Step 1)",
                  target |-> "Course List (Step 2)", value |-> 1],
                 [source |-> "Course List (Step 2)",
                  target |-> "Course Detail (Step 3)", value |-> 1]}

\* two sessions from Home to Course List
C8_Witness ==
    /\ SankeyAnswered
    /\ Cardinality(SessionIds) = 2
    /\ \A sid \in SessionIds :
          /\ Len(PathOf(sid)) >= 2
          /\ PathOf(sid)[1] = "Home"
          /\ PathOf(sid)[2] = "Course List"
    /\ LinkValue("Home (Step 1)", "Course List (Step 2)") = 2

\* C9: the link from a session's first source to its first category counts
\* the sessions of that source and first category when the source is not
\* Internal, and is absent when it is; no node is named for the Internal
\* source; and a session of Internal source is counted in the links between
\* its first three categories like any other (where consecutive categories
\* differ).
C9_NoInternalSourceLink ==
    SankeyAnswered =>
        /\ \A sid \in SessionIds :
              LinkValue(SourceNode(FirstSourceOf(sid)), Step1(PathOf(sid)[1]))
                = IF FirstSourceOf(sid) = "Internal" THEN 0
                  ELSE Cardinality({o \in SessionIds :
                          /\ FirstSourceOf(o) = FirstSourceOf(sid)
                          /\ PathOf(o)[1] = PathOf(sid)[1]})
        /\ "Internal (Source)" \notin response.nodes
        /\ \A sid \in SessionIds :
              FirstSourceOf(sid) = "Internal" =>
                /\ (Len(PathOf(sid)) >= 2 /\ PathOf(sid)[1] # PathOf(sid)[2])
                    => /\ LinkValue(Step1(PathOf(sid)[1]), Step2(PathOf(sid)[2]))
                            = Cardinality({o \in SessionIds :
                                /\ Len(PathOf(o)) >= 2
                                /\ PathOf(o)[1] = PathOf(sid)[1]
                                /\ PathOf(o)[2] = PathOf(sid)[2]})
                       /\ Step1(PathOf(sid)[1]) \in response.nodes
                       /\ Step2(PathOf(sid)[2]) \in response.nodes
                /\ (Len(PathOf(sid)) >= 3 /\ PathOf(sid)[2] # PathOf(sid)[3])
                    => /\ LinkValue(Step2(PathOf(sid)[2]), Step3(PathOf(sid)[3]))
                            = Cardinality({o \in SessionIds :
                                /\ Len(PathOf(o)) >= 3
                                /\ PathOf(o)[2] = PathOf(sid)[2]
                                /\ PathOf(o)[3] = PathOf(sid)[3]})
                       /\ Step3(PathOf(sid)[3]) \in response.nodes

\* a session of Internal source with three differing categories, beside a
\* session of another source
C9_Witness ==
    /\ SankeyAnswered
    /\ \E sid, o \in SessionIds :
          /\ FirstSourceOf(sid) = "Internal"
          /\ Len(PathOf(sid)) >= 3
          /\ PathOf(sid)[1] # PathOf(sid)[2]
          /\ PathOf(sid)[2] # PathOf(sid)[3]
          /\ FirstSourceOf(o) # "Internal"

(***************************************************************************)
(* Claims about get_analytics_stats.                                        *)
(***************************************************************************)
StatsReported == response.op = "stats" /\ ~response.error

\* the sum of the engagement durations d with 0 < d < 86400, each capped at
\* 1800
RECURSIVE CappedValidSum(_)
CappedValidSum(events) ==
    IF events = <<>> THEN 0
    ELSE (IF /\ Head(events).event_type = "user_engagement"
             /\ DurationOf(Head(events)) > 0
             /\ DurationOf(Head(events)) < 86400
          THEN (IF DurationOf(Head(events)) > 1800
                THEN 1800 ELSE DurationOf(Head(events)))
          ELSE 0)
         + CappedValidSum(Tail(events))

\* C2: the reported average engagement time is the sum of the valid
\* engagement durations (those above 0 and below 86400), each capped at 1800,
\* divided by the number of distinct sessions and rounded to a tenth; it is 0
\* when there is no session.  Checked under SpecEngagement.
C2_CappedValidAverage ==
    StatsReported =>
        response.avg_engagement_time =
            IF total_sessions(response.events) = 0 THEN 0
            ELSE RoundTenths(CappedValidSum(response.events),
                             total_sessions(response.events))

CountOf(labels, name) ==
    Cardinality({k \in 1..Len(labels) : labels[k] = name})

FirstOf(labels, name) == Min({k \in 1..Len(labels) : labels[k] = name})

TopListed(top, labels) ==
    /\ Len(top) <= 5
    /\ \A i \in 1..Len(top) :
          /\ top[i].value = CountOf(labels, top[i].name)
          /\ top[i].value >= 1
    /\ \A i, j \in 1..Len(top) :
          i < j =>
            /\ top[i].name # top[j].name
            /\ top[i].value >= top[j].value
            /\ top[i].value = top[j].value
                => FirstOf(labels, top[i].name) < FirstOf(labels, top[j].name)
    /\ \A k \in 1..Len(labels) :
          (\A i \in 1..Len(top) : top[i].name # labels[k])
            => /\ Len(top) = 5
               /\ CountOf(labels, labels[k]) <= top[5].value

\* C10: each of top_sources and top_pages has at most 5 entries; the value
\* of an entry is the number of page views of its label; the values do not
\* increase along the list; a label left out has no more page views than the
\* last entry; and entries of equal value stand in the order their labels
\* first occur in the event list.  Checked under SpecStats.
C10_TopFive ==
    StatsReported =>
        /\ TopListed(response.top_sources, SourcesOf(EventsOfType(response.events, "pageview")))
        /\ TopListed(response.top_pages, PagesOf(EventsOfType(response.events, "pageview")))

\* six sources and six pages: one is left out, the first entry has two page
\* views and the others tie at one
C10_Witness ==
    /\ StatsReported
    /\ Len(response.top_sources) = 5
    /\ Len(response.top_pages) = 5
    /\ response.top_sources[1].value > response.top_sources[2].value
    /\ response.top_sources[2].value = response.top_sources[5].value
    /\ \E k \in 1..Len(response.events) :
          \A i \in 1..5 :
              response.top_sources[i].name # SourceOf(response.events[k])

\* the first source the session path builder gives a session that begins with
\* event e: what get_sankey_data captures from a table holding e alone
PathBuilderLabel(e) == SankeyOf(<<e>>).session_referrers[e.session_id]

\* the label C11 names for a page view
C11_Label(e) ==
    IF e.data.source # None /\ e.data.source # Some("")
    THEN e.data.source[1] \o " (UTM)"
    ELSE PathBuilderLabel(e)

C11_Labels(events) ==
    [i \in 1..Len(EventsOfType(events, "pageview")) |->
        C11_Label(EventsOfType(events, "pageview")[i])]

\* C11: the label the stats report tallies a page view under is its
\* data.source followed by " (UTM)" when that field is non-empty, and
\* otherwise the label the session path builder gives the same event: every
\* entry of top_sources counts the page views of that label, and every such
\* label has an entry while the list has room.  Checked under SpecStats.
C11_SameClassifier ==
    StatsReported =>
        /\ \A i \in 1..Len(response.top_sources) :
              response.top_sources[i].value =
                  CountOf(C11_Labels(response.events),
                          response.top_sources[i].name)
        /\ \A k \in 1..Len(C11_Labels(response.events)) :
              \/ Len(response.top_sources) = 5
              \/ \E i \in 1..Len(response.top_sources) :
                    response.top_sources[i].name
                        = C11_Labels(response.events)[k]

\* a report that counts a page view under its data.source, though its
\* referrer is internal, beside page views the classifier labels from a
\* referrer and from a utm_source
C11_Witness ==
    /\ StatsReported
    /\ \E i, j, k \in 1..Len(response.top_sources) :
          /\ response.top_sources[i].name = "mail (UTM)"
          /\ response.top_sources[j].name = "Google Search"
          /\ response.top_sources[k].name = "WeChat"
    /\ \E n \in 1..Len(response.events) :
          /\ response.events[n].data.source = Some("mail")
          /\ PathBuilderLabel(response.events[n]) = "Internal"

\* the visitors of the event list, and those of them with more than one session
VisitorsOf(events) == {events[i].visitor_id : i \in 1..Len(events)}

SessionsOfVisitor(events, v) ==
    {events[i].session_id : i \in {k \in 1..Len(events) : events[k].visitor_id = v}}

ReturningOf(events) ==
    {v \in VisitorsOf(events) : Cardinality(SessionsOfVisitor(events, v)) > 1}

\* the number of page views of the visitors V
PageviewsOfVisitors(events, V) ==
    Cardinality({i \in 1..Len(events) :
        events[i].event_type = "pageview" /\ events[i].visitor_id \in V})

\* C12: the stats report counts each visitor with more than one session once
\* under "Returning Visitors" and every other visitor once under "New", with
\* the page views of the visitors of each kind as the two page-view totals;
\* the visitor counts add up to users and the page-view totals to page_views.
\* Checked under SpecStats.
C12_UserTypes ==
    StatsReported =>
        /\ "user_types" \in DOMAIN response
        /\ "user_type_pvs" \in DOMAIN response
        /\ response.user_types["Returning Visitors"]
              = Cardinality(ReturningOf(response.events))
        /\ response.user_types["New"]
              = Cardinality(VisitorsOf(response.events)
                                \ ReturningOf(response.events))
        /\ response.user_type_pvs["Returning Visitors"]
              = PageviewsOfVisitors(response.events,
                                    ReturningOf(response.events))
        /\ response.user_type_pvs["New"]
              = PageviewsOfVisitors(response.events,
                    VisitorsOf(response.events) \ ReturningOf(response.events))
        /\ response.user_types["Returning Visitors"] + response.user_types["New"]
              = response.users
        /\ response.user_type_pvs["Returning Visitors"]
              + response.user_type_pvs["New"] = response.page_views

\* the report get_analytics_stats gives the page views of the list alone
PageviewsOnly(events) == StatsOf(EventsOfType(events, "pageview"))

\* C13: users is the number of distinct visitor ids and sessions the number
\* of distinct session ids of all the events of the table, whatever their
\* type; page_views is the number of page views; and page_views, top_sources,
\* top_pages and devices are what they would be were the events of other
\* types not there.  Checked under SpecMixed.
C13_CountsByType ==
    StatsReported =>
        /\ response.users
              = Cardinality({e.visitor_id : e \in BagToSet(store)})
        /\ response.sessions
              = Cardinality({e.session_id : e \in BagToSet(store)})
        /\ response.page_views = BagCardinality(OfType(store, "pageview"))
        /\ response.page_views = PageviewsOnly(response.events).page_views
        /\ response.top_sources = PageviewsOnly(response.events).top_sources
        /\ response.top_pages = PageviewsOnly(response.events).top_pages
        /\ response.devices = PageviewsOnly(response.events).devices

\* a report on two page views, a click of a third visitor in a session of its
\* own and an engagement report of a fourth
C13_Witness ==
    /\ StatsReported
    /\ response.page_views = 2
    /\ response.users = 4
    /\ response.sessions = 4
    /\ \E i, j \in 1..Len(response.events) :
          /\ response.events[i].event_type = "click"
          /\ response.events[j].event_type = "user_engagement"

ReportFields ==
    {"users", "sessions", "page_views", "avg_engagement_time",
     "top_sources", "top_pages", "devices"}

\* C14: a stats request whose computation fails (an engagement duration that
\* is no number, or a query that raises) is answered, and by the error value
\* alone, with none of the fields of the report; a stats request that does
\* not fail is answered by the whole report; and a sankey request whose query
\* raises is answered by the graph without nodes and links.  Checked under
\* SpecFaults.
C14_ErrorOrWholeResult ==
    /\ (response.op = "stats" /\ Raising(response.events) # {})
          => response.error
    /\ (response.op = "stats" /\ response.error)
          => DOMAIN response \cap ReportFields = {}
    /\ (response.op = "stats" /\ ~response.error)
          => ReportFields \subseteq DOMAIN response
    /\ (response.op = "sankey" /\ "failed" \in DOMAIN response)
          => response.nodes = {} /\ response.links = {}

\* a stats request that fails on a duration though the table holds two page
\* views it could have reported on
C14_Witness ==
    /\ response.op = "stats"
    /\ response.error
    /\ Raising(response.events) # {}
    /\ Len(EventsOfType(response.events, "pageview")) >= 2

\* an engagement report whose duration is missing or is no number
BadDuration(e) ==
    /\ e.event_type = "user_engagement"
    /\ \/ e.data.duration_seconds = None
       \/ ~e.data.duration_seconds[1].num

\* the event list with every such event carrying no duration
WithoutBadDurations(events) ==
    [i \in 1..Len(events) |->
        IF BadDuration(events[i])
        THEN [events[i] EXCEPT !.data.duration_seconds = None]
        ELSE events[i]]

\* C15: an engagement event whose duration is missing or is no number is
\* left out of the engagement sum and nothing else: the report is produced,
\* and each of its fields is what it would be had the event carried no
\* duration.  Checked under SpecMixed.
C15_BadDurationSkipped ==
    response.op = "stats" =>
        /\ ~response.error
        /\ \A f \in ReportFields :
              response[f] = StatsOf(WithoutBadDurations(response.events))[f]

\* the nodes of a graph under construction are the endpoints of its links,
\* and each of its links has been counted
GraphClosed(g) ==
    /\ g.nodes = UNION {{k[1], k[2]} : k \in DOMAIN g.links_count}
    /\ \A k \in DOMAIN g.links_count : g.links_count[k] >= 1

\* links_count and nodes before the k-th session of the loop and after each
\* of its three layers
BuildStages(grouped, k) ==
    << BuildGraph(grouped, k - 1),
       Layer0(BuildGraph(grouped, k - 1),
              ReferrerOf(grouped.session_referrers, grouped.order[k]),
              grouped.sessions[grouped.order[k]]),
       Layer1(Layer0(BuildGraph(grouped, k - 1),
                     ReferrerOf(grouped.session_referrers, grouped.order[k]),
                     grouped.sessions[grouped.order[k]]),
              grouped.sessions[grouped.order[k]]),
       BuildGraph(grouped, k) >>

StagesClosed(grouped) ==
    \A k \in 1..Len(grouped.order) :
        /\ \A n \in 1..4 : GraphClosed(BuildStages(grouped, k)[n])
        /\ BuildStages(grouped, k)[4].links_count
              = BuildStages(grouped, k)[1].links_count
           => BuildStages(grouped, k)[4].nodes = BuildStages(grouped, k)[1].nodes

\* C16: before and after every session of the loop of get_sankey_data, and
\* after each layer of a session, the nodes are exactly the endpoints of the
\* links counted so far, every link having a count of at least 1; a session
\* that adds no link adds no node; and the same holds of the answer.
C16_NodesAreEndpoints ==
    SankeyAnswered =>
        /\ StagesClosed(GroupEvents(response.events, Len(response.events)))
        /\ response.nodes =
              UNION {{l.source, l.target} : l \in response.links}
        /\ \A l \in response.links : l.value >= 1

\* a session of one page and Internal source, which adds neither link nor
\* node, beside a session that adds both
C16_Witness ==
    /\ SankeyAnswered
    /\ response.nodes # {}
    /\ \E sid \in SessionIds :
          /\ FirstSourceOf(sid) = "Internal"
          /\ Len(PathOf(sid)) = 1
          /\ Step1(PathOf(sid)[1]) \notin response.nodes

\* the events an aggregation used are the newest of the rows it draws from,
\* up to the row cap
NewestUsed(used, rows) ==
    /\ Len(used) = (IF BagCardinality(rows) <= ScaledRowCap
                    THEN BagCardinality(rows) ELSE ScaledRowCap)
    /\ \A e \in BagToSet(rows) :
          (\A i \in 1..Len(used) : used[i] # e)
            => \A i \in 1..Len(used) : e.timestamp <= used[i].timestamp

\* the sessions of the rows collected last, which are those of the latest
\* timestamp
LatestSessions(rows) ==
    {e.session_id : e \in {e \in BagToSet(rows) :
        \A f \in BagToSet(rows) : f.timestamp <= e.timestamp}}

\* C17: whatever the number of events collected, a flow graph is computed
\* from the newest page views up to the row cap and a stats report from the
\* newest events up to the row cap, so the page views of the session collected
\* last are in both.  Checked under SpecWindow, where the row caps are scaled
\* down to ScaledRowCap and events arrive in the order of their timestamps.
C17_NewestWindow ==
    /\ SankeyAnswered =>
          /\ NewestUsed(response.events, OfType(store, "pageview"))
          /\ LatestSessions(OfType(store, "pageview")) \subseteq SessionIds
    /\ StatsReported =>
          /\ NewestUsed(response.events, store)
          /\ LatestSessions(store)
                \subseteq {response.events[i].session_id :
                              i \in 1..Len(response.events)}

\* the part of C17 that speaks of the stats report
C17_StatsPart ==
    StatsReported =>
        /\ NewestUsed(response.events, store)
        /\ LatestSessions(store)
              \subseteq {response.events[i].session_id :
                            i \in 1..Len(response.events)}

=============================================================================
